---------------------------- MODULE Spec2Model ----------------------------
(***************************************************************************)
(* Upload intake of the VidP FastAPI service: FileStorageService           *)
(* (app/services/file_storage.py) driven by upload_video                   *)
(* (app/api/v1/endpoints_video.py), over a model of the local video        *)
(* directory.                                                              *)
(*                                                                         *)
(* upload_video and save_video_file are coroutines on one event loop: the  *)
(* code between two awaits runs atomically, and at each await (the open,   *)
(* the read, the write and close of aiofiles, which run in a thread pool)  *)
(* other requests may run.  Each action below is one such atomic block.    *)
(***************************************************************************)
EXTENDS Integers, Sequences, FiniteSets, TLC

(***************************************************************************)
(* Bounds of the model.                                                    *)
(***************************************************************************)
\* Number of upload requests (request slots) that may be in flight together.
NumReq == 2
\* Longest enumerated payload, in bytes (one ten-byte payload is added).
MaxLen == 2

Procs == 1..NumReq
Byte == {1, 2}

\* Python's None, for the optional attributes (UploadFile.size, the client).
\* An optional integer is the empty set (None) or a singleton set.
NoneV == {}
Some(n) == {n}

(***************************************************************************)
(* Text: file names are sequences of characters, so that the suffix and    *)
(* the lower-casing are computed and not assumed.                          *)
(***************************************************************************)
LowerChar(c) ==
    CASE c = "M" -> "m"
      [] c = "P" -> "p"
      [] c = "K" -> "k"
      [] c = "V" -> "v"
      [] OTHER -> c

\* str.lower()
Lower_Keep(s) == s

Lower(s) == [i \in 1..Len(s) |-> LowerChar(s[i])]

\* str.rfind('.') as a 1-based index, 0 when absent (Python: -1).
RFindDot(s) ==
    LET hits == {i \in 1..Len(s) : s[i] = "."}
    IN IF hits = {} THEN 0 ELSE CHOOSE i \in hits : \A j \in hits : j <= i

\* pathlib.PurePath.suffix of a single path component: the text from the
\* last dot, unless that dot is the first or the last character.
PathSuffix(name) ==
    LET i == RFindDot(name)
    IN IF 1 < i /\ i < Len(name) THEN SubSeq(name, i, Len(name)) ELSE <<>>

(***************************************************************************)
(* Configuration and constants of the code.                                *)
(***************************************************************************)
local_video_path == "./local_storage/videos"

allowed_video_types_Without_mkv ==
    {"video/mp4", "video/avi", "video/mov", "video/wmv", "video/flv",
     "video/webm"}

allowed_video_types ==
    {"video/mp4", "video/avi", "video/mov", "video/wmv", "video/flv",
     "video/webm", "video/mkv"}

max_size == 500 * 1024 * 1024

\* VideoStatus
UPLOADED == "uploaded"

(***************************************************************************)
(* HTTPException(status_code, detail).  The four failures of the upload    *)
(* path, told apart by status code and message.                            *)
(***************************************************************************)
HTTPException(code, detail) == [ok |-> FALSE, status_code |-> code, detail |-> detail]

UnsupportedType == HTTPException(400, "Type de fichier non supporte")
EmptyFile == HTTPException(400, "Le fichier est vide")
TooLarge == HTTPException(413, "Fichier trop volumineux")
\* save_video_file, line 115: the file is absent after the write.
AbsentAfterWrite == HTTPException(500, "Erreur lors de la sauvegarde du fichier")
\* save_video_file, line 129: any other exception raised in the try block.
InternalSaveError == HTTPException(500, "Erreur interne lors de la sauvegarde")

NoException == [ok |-> TRUE]

(***************************************************************************)
(* FileStorageService._validate_video_file                                 *)
(***************************************************************************)
SizeIsZero_Never(file) == FALSE

\* file.size == 0
SizeIsZero(file) == file.size = Some(0)

\* file.size and file.size > max_size  (None and 0 are falsy)
SizeTooLarge_AtCeiling(file) == \E n \in file.size : n # 0 /\ n >= max_size

SizeTooLarge(file) == \E n \in file.size : n # 0 /\ n > max_size

\* Returns NoException, or the HTTPException the code raises.
_validate_video_file(file) ==
    IF file.content_type \notin allowed_video_types THEN UnsupportedType
    ELSE IF SizeIsZero(file) THEN EmptyFile
    ELSE IF SizeTooLarge(file) THEN TooLarge
    ELSE NoException


(***************************************************************************)
(* FileStorageService._generate_unique_filename                            *)
(*                                                                         *)
(* uuid.uuid4() is modelled as a source of values that never repeats: the  *)
(* n-th draw of the process yields n.  str(uuid4) has a fixed length, so   *)
(* the concatenation with the extension is the pair (id, ext).             *)
(***************************************************************************)
uuid4(drawn) == drawn + 1

_generate_unique_filename_NoUuid(original_filename, unique_id) ==
    [id |-> 1, ext |-> Lower(PathSuffix(original_filename))]

_generate_unique_filename_OriginalName(original_filename, unique_id) ==
    [id |-> 1, ext |-> Lower(original_filename)]

_generate_unique_filename(original_filename, unique_id) ==
    [id |-> unique_id, ext |-> Lower(PathSuffix(original_filename))]

(***************************************************************************)
(* Paths: a path is the sequence of its components.                        *)
(***************************************************************************)
storage_path == <<local_video_path>>

\* storage_path / unique_filename
full_path(unique_filename) == Append(storage_path, unique_filename)

(***************************************************************************)
(* The requests: an UploadFile is a declared name, a declared MIME type, a *)
(* declared size (None when the transport gives none) and the stream.      *)
(***************************************************************************)
TenBytes == <<1, 2, 1, 2, 1, 2, 1, 2, 1, 2>>

Streams ==
    UNION {[1..n -> Byte] : n \in 0..MaxLen} \cup {TenBytes}

FileNames ==
    {<<"c", "l", "i", "p", ".", "M", "P", "4">>,
     <<"c", "l", "i", "p", ".", "m", "p", "4">>,
     <<"n", "o", "e", "x", "t">>}

ContentTypes ==
    {"video/mp4", "video/avi", "video/mov", "video/wmv", "video/flv",
     "video/webm", "video/mkv", "text/plain", "video/x-matroska", "image/png"}

Sizes ==
    {NoneV, Some(0), Some(1), Some(10), Some(max_size), Some(max_size + 1)}

UploadFiles ==
    [filename : FileNames, content_type : ContentTypes, size : Sizes,
     stream : Streams]

\* The requests of the concurrent specification: fewer, to leave room for
\* the interleavings.
ConcUploadFiles ==
    {f \in UploadFiles :
        /\ f.content_type \in {"video/mp4", "text/plain"}
        /\ f.size \in {NoneV, Some(0)}
        /\ f.filename # <<"n", "o", "e", "x", "t">>
        /\ f.stream \in {<<1>>, <<1, 2>>}}

(***************************************************************************)
(* State.                                                                  *)
(***************************************************************************)
VARIABLES
    pc,               \* where each upload_video call stands
    file,             \* its UploadFile
    video_id,         \* upload_video: video_id
    unique_filename,  \* save_video_file: unique_filename
    content,          \* save_video_file: content, the bytes read
    metadata,         \* upload_video: metadata
    result,           \* what the call returned or raised
    made_dir,         \* save_video_file: whether its mkdir created the directory
    meta_saved,       \* upload_video: what save_video_metadata returned (dropped)
    fs,               \* the regular files of the video directory: name -> bytes
    rootExists,       \* whether the video directory exists
    uuidDrawn,        \* number of uuid4() draws so far
    client,           \* mongodb_connector.client
    collection,       \* mongodb_connector.collection
    store,            \* the documents of the video_metadata collection
    last_delete,      \* the last delete_video_file call: path and return value
    query             \* the answer of the last metadata or stream request

callVars ==
    <<pc, file, video_id, unique_filename, content, metadata, result, made_dir,
      meta_saved>>
diskVars == <<fs, rootExists>>
mongoVars == <<client, collection, store>>
vars == <<callVars, diskVars, uuidDrawn, mongoVars, last_delete, query>>

NoFile == [filename |-> <<>>, content_type |-> "", size |-> NoneV, stream |-> <<>>]
NoKey == [id |-> 0, ext |-> <<>>]
NoMetadata == [video_id |-> 0]
NoResult == [ok |-> FALSE, status_code |-> 0, detail |-> ""]
NoDelete == [path |-> <<>>, ret |-> FALSE, called |-> FALSE]
NoQuery == [endpoint |-> "", status_code |-> 0, ret |-> FALSE]

\* datetime.now(): the timestamps are not modelled beyond their presence.
Now == "now"

Init ==
    /\ pc = [p \in Procs |-> "idle"]
    /\ file = [p \in Procs |-> NoFile]
    /\ video_id = [p \in Procs |-> 0]
    /\ unique_filename = [p \in Procs |-> NoKey]
    /\ content = [p \in Procs |-> <<>>]
    /\ metadata = [p \in Procs |-> NoMetadata]
    /\ result = [p \in Procs |-> NoResult]
    /\ made_dir = [p \in Procs |-> FALSE]
    /\ meta_saved = [p \in Procs |-> NoneV]
    /\ fs = [k \in {} |-> <<>>]
    /\ rootExists = TRUE
    /\ uuidDrawn = 0
    /\ client = NoneV
    /\ collection = NoneV
    /\ store = {}
    /\ last_delete = NoDelete
    /\ query = NoQuery

\* Path.exists() of a path of the video directory, given whether the
\* directory exists and the files it holds.
ExistsIn(dirExists, files, path) ==
    IF Len(path) = 1 THEN dirExists
    ELSE dirExists /\ path[2] \in DOMAIN files

Exists(path) == ExistsIn(rootExists, fs, path)

\* Path.is_file()
IsFile(path) == Len(path) = 2 /\ Exists(path)

\* The directory with the file `name` holding `bytes`.
WithFile(name, bytes) ==
    [k \in DOMAIN fs \cup {name} |-> IF k = name THEN bytes ELSE fs[k]]

\* The directory without the file `name`.
WithoutFile_Kept(name) == fs

WithoutFile(name) == [k \in DOMAIN fs \ {name} |-> fs[k]]


(***************************************************************************)
(* The records built by upload_video.                                      *)
(***************************************************************************)
VideoMetadata(vid, f, path, size) ==
    [video_id |-> vid, original_filename |-> f.filename, file_path |-> path,
     file_size |-> size, content_type |-> f.content_type, status |-> UPLOADED,
     upload_time |-> Now]

VideoUploadResponse_FixedType(vid, f, path, size) ==
    [ok |-> TRUE, status_code |-> 201, video_id |-> vid,
     filename |-> f.filename, file_path |-> path, file_size |-> size,
     content_type |-> "video/mp4", status |-> UPLOADED,
     upload_time |-> Now]

\* The response body, with the status code of the route (201).  Its
\* message, a sentence naming the file, is left out.
VideoUploadResponse(vid, f, path, size) ==
    [ok |-> TRUE, status_code |-> 201, video_id |-> vid,
     filename |-> f.filename, file_path |-> path, file_size |-> size,
     content_type |-> f.content_type, status |-> UPLOADED,
     upload_time |-> Now]

(***************************************************************************)
(* save_video_file, lines 108-111: what `async with aiofiles.open(..,'wb')`*)
(* and f.write(content) leave in the file once the write has completed.    *)
(***************************************************************************)
WrittenBytes_Reversed(data) == [i \in 1..Len(data) |-> data[Len(data) + 1 - i]]

WrittenBytes(data) == data

(***************************************************************************)
(* save_video_file, lines 113-122: the check after the write.  Returns the *)
(* tuple (unique_filename, str(full_path), file_size) as a record, or the  *)
(* HTTPException raised.                                                   *)
(***************************************************************************)
StatSize_Kilobytes(name) == Len(fs[name]) \div 1024

\* full_path.stat().st_size
StatSize(name) == Len(fs[name])

SaveOutcome_Unverified(name, data) ==
    [ok |-> TRUE, unique_filename |-> name, full_path |-> full_path(name),
     file_size |-> Len(data)]

SaveOutcome(name, data) ==
    IF ~Exists(full_path(name)) THEN AbsentAfterWrite
    ELSE [ok |-> TRUE, unique_filename |-> name,
          full_path |-> full_path(name), file_size |-> StatSize(name)]

(***************************************************************************)
(* upload_video, line 41: the identifier of the item.                      *)
(***************************************************************************)
NewVideoId_Constant(drawn) == 1

NewVideoId(drawn) == uuid4(drawn)

(***************************************************************************)
(* The handlers of save_video_file (lines 124-126) and of upload_video     *)
(* (lines 77-79): `except HTTPException: raise`.  An HTTPException leaves  *)
(* both as it was raised.                                                  *)
(***************************************************************************)
Reraise_AsInternal(exc) == InternalSaveError

Reraise(exc) == exc

(***************************************************************************)
(* upload_video up to the first await of save_video_file: the id, the      *)
(* validation, the key, the directory.  A validation failure ends the call.*)
(***************************************************************************)
\* Path.mkdir(parents=True, exist_ok=True): the directory exists afterwards,
\* whether it did before or not.
mkdir_Skipped(dirExists) == dirExists

mkdir(dirExists) == TRUE

\* save_video_file, lines 96-106: the mkdir is reached only when
\* _validate_video_file did not raise.
DirAfterValidation_Always(valid, dirExists) == mkdir(dirExists)

DirAfterValidation(valid, dirExists) ==
    IF valid THEN mkdir(dirExists) ELSE dirExists

upload_video(p, f) ==
    /\ pc[p] = "idle"
    /\ file' = [file EXCEPT ![p] = f]
    /\ video_id' = [video_id EXCEPT ![p] = NewVideoId(uuidDrawn)]
    /\ LET v == _validate_video_file(f)
       IN IF ~v.ok
          THEN /\ pc' = [pc EXCEPT ![p] = "done"]
               /\ result' = [result EXCEPT ![p] = Reraise(v)]
               /\ uuidDrawn' = uuidDrawn + 1
               /\ rootExists' = DirAfterValidation(FALSE, rootExists)
               /\ UNCHANGED <<unique_filename, made_dir>>
          ELSE /\ unique_filename' =
                      [unique_filename EXCEPT
                          ![p] = _generate_unique_filename(f.filename,
                                                           uuid4(uuidDrawn + 1))]
               /\ uuidDrawn' = uuidDrawn + 2
               \* storage_path.mkdir(parents=True, exist_ok=True)
               /\ rootExists' = DirAfterValidation(TRUE, rootExists)
               /\ made_dir' = [made_dir EXCEPT ![p] = ~rootExists]
               /\ pc' = [pc EXCEPT ![p] = "open"]
               /\ UNCHANGED result
    /\ UNCHANGED <<content, metadata, meta_saved, fs, mongoVars, last_delete,
                   query>>

(***************************************************************************)
(* aiofiles.open(full_path, 'wb'): creates the file, or truncates it.  An  *)
(* OSError is turned into a 500 by the generic handler (line 127).         *)
(***************************************************************************)
aio_open(p, ioOk) ==
    /\ pc[p] = "open"
    /\ IF ioOk /\ rootExists
       THEN /\ fs' = WithFile(unique_filename[p], <<>>)
            /\ pc' = [pc EXCEPT ![p] = "read"]
            /\ UNCHANGED result
       ELSE /\ pc' = [pc EXCEPT ![p] = "done"]
            /\ result' = [result EXCEPT ![p] = InternalSaveError]
            /\ UNCHANGED fs
    /\ UNCHANGED <<file, video_id, unique_filename, content, metadata,
                   made_dir, meta_saved, rootExists, uuidDrawn, mongoVars,
                   last_delete, query>>

(***************************************************************************)
(* content = await file.read(): the whole stream.  When it raises, the     *)
(* `async with` closes the file and the generic handler answers 500.       *)
(***************************************************************************)
file_read(p, ioOk) ==
    /\ pc[p] = "read"
    /\ IF ioOk
       THEN /\ content' = [content EXCEPT ![p] = file[p].stream]
            /\ pc' = [pc EXCEPT ![p] = "write"]
            /\ UNCHANGED result
       ELSE /\ pc' = [pc EXCEPT ![p] = "done"]
            /\ result' = [result EXCEPT ![p] = InternalSaveError]
            /\ UNCHANGED content
    /\ UNCHANGED <<file, video_id, unique_filename, metadata, made_dir,
                   meta_saved, diskVars, uuidDrawn, mongoVars, last_delete,
                   query>>

(***************************************************************************)
(* await f.write(content) and the close at the end of the `async with`.    *)
(* n bytes reach the file; when the write or the close raises, the file    *)
(* keeps what reached it and the generic handler answers 500.  A file that *)
(* was unlinked since the open is written through the open handle only.    *)
(***************************************************************************)
aio_write(p, ioOk, n) ==
    /\ pc[p] = "write"
    /\ n \in 0..Len(content[p])
    /\ ioOk => n = Len(content[p])
    /\ fs' = IF unique_filename[p] \in DOMAIN fs
             THEN WithFile(unique_filename[p],
                           SubSeq(WrittenBytes(content[p]), 1, n))
             ELSE fs
    /\ IF ioOk
       THEN /\ pc' = [pc EXCEPT ![p] = "verify"]
            /\ UNCHANGED result
       ELSE /\ pc' = [pc EXCEPT ![p] = "done"]
            /\ result' = [result EXCEPT ![p] = InternalSaveError]
    /\ UNCHANGED <<file, video_id, unique_filename, content, metadata,
                   made_dir, meta_saved, rootExists, uuidDrawn, mongoVars,
                   last_delete, query>>

(***************************************************************************)
(* save_video_file from the existence check to its return, and             *)
(* upload_video from the metadata to its response (lines 47-75).  With a   *)
(* client, the call first awaits save_video_metadata.                      *)
(***************************************************************************)
save_return(p) ==
    /\ pc[p] = "verify"
    /\ LET saved == SaveOutcome(unique_filename[p], content[p])
       IN IF ~saved.ok
          THEN /\ pc' = [pc EXCEPT ![p] = "done"]
               /\ result' = [result EXCEPT ![p] = Reraise(saved)]
               /\ UNCHANGED metadata
          ELSE /\ metadata' =
                      [metadata EXCEPT
                          ![p] = VideoMetadata(video_id[p], file[p],
                                               saved.full_path, saved.file_size)]
               /\ IF client # NoneV
                  THEN /\ pc' = [pc EXCEPT ![p] = "save_metadata"]
                       /\ UNCHANGED result
                  ELSE /\ pc' = [pc EXCEPT ![p] = "done"]
                       /\ result' =
                              [result EXCEPT
                                  ![p] = VideoUploadResponse(video_id[p], file[p],
                                             saved.full_path, saved.file_size)]
    /\ UNCHANGED <<file, video_id, unique_filename, content, made_dir,
                   meta_saved, diskVars, uuidDrawn, mongoVars, last_delete,
                   query>>

(***************************************************************************)
(* FileStorageService.delete_video_file.  An exception of exists, is_file  *)
(* or unlink (ioOk false) is caught and answered False.                    *)
(***************************************************************************)
delete_video_file(file_path, ioOk) ==
    /\ IF Exists(file_path) /\ IsFile(file_path) /\ ioOk
       THEN /\ fs' = WithoutFile(file_path[2])
            /\ last_delete' = [path |-> file_path, ret |-> TRUE, called |-> TRUE]
       ELSE /\ UNCHANGED fs
            /\ last_delete' = [path |-> file_path, ret |-> FALSE, called |-> TRUE]
    /\ UNCHANGED <<callVars, rootExists, uuidDrawn, mongoVars, query>>

\* The paths a caller may name: the stored files, the paths given to the
\* upload calls (stored or not, deleted or not), the directory itself, and
\* a file that was never stored.
DeletePaths ==
    {full_path(k) : k \in DOMAIN fs}
        \cup {full_path(unique_filename[p]) : p \in Procs}
        \cup {storage_path, full_path(NoKey)}

(***************************************************************************)
(* Specifications.                                                         *)
(*                                                                         *)
(* Spec: one upload call at a time over every request of UploadFiles,      *)
(* with delete_video_file called by other tasks at any await.              *)
(* SpecConc: NumReq upload calls interleaved at their awaits.              *)
(***************************************************************************)
Next ==
    \/ \E f \in UploadFiles : upload_video(1, f)
    \/ \E ioOk \in BOOLEAN : aio_open(1, ioOk)
    \/ \E ioOk \in BOOLEAN : file_read(1, ioOk)
    \/ \E ioOk \in BOOLEAN, n \in 0..Len(content[1]) : aio_write(1, ioOk, n)
    \/ save_return(1)
    \/ \E path \in DeletePaths, ioOk \in BOOLEAN : delete_video_file(path, ioOk)

Spec == Init /\ [][Next]_vars

NextConc ==
    \E p \in Procs :
        \/ \E f \in ConcUploadFiles : upload_video(p, f)
        \/ \E ioOk \in BOOLEAN : aio_open(p, ioOk)
        \/ \E ioOk \in BOOLEAN : file_read(p, ioOk)
        \/ \E ioOk \in BOOLEAN, n \in 0..Len(content[p]) : aio_write(p, ioOk, n)
        \/ save_return(p)

SpecConc == Init /\ [][NextConc]_vars


(***************************************************************************)
(* The error kinds of the specification, as the caller sees them.          *)
(***************************************************************************)
\* WriteFailure: either 500 of save_video_file.
IsWriteFailure(r) == ~r.ok /\ r.status_code = 500

\* The call of p has ended (returned or raised).
Ended(p) == pc[p] = "done"

\* The call of p has ended with the 201 response.
Succeeded(p) == Ended(p) /\ result[p].ok

\* The call of p got through validation: it ended in something other than a
\* validation error, or is still running.
PassedValidation(p) ==
    /\ pc[p] # "idle"
    /\ result[p] \notin {UnsupportedType, EmptyFile, TooLarge}
    /\ unique_filename[p] # NoKey

\* The accepted set and the ceiling as the specification states them.
AcceptedMimeTypes ==
    {"video/mp4", "video/avi", "video/mov", "video/wmv", "video/flv",
     "video/webm", "video/mkv"}

Ceiling == 524288000

(***************************************************************************)
(* C1: every declared MIME type of the accepted set passes validation      *)
(* (declared size not zero and not above the ceiling), and every other     *)
(* declared type is refused with UnsupportedType (400), whatever the       *)
(* declared size, zero and above the ceiling included.                     *)
(***************************************************************************)
C1_MimeTypes ==
    \A p \in Procs :
        pc[p] # "idle" =>
            /\ file[p].content_type \notin AcceptedMimeTypes =>
                   /\ Ended(p)
                   /\ result[p] = UnsupportedType
                   /\ result[p].status_code = 400
            /\ ( /\ file[p].content_type \in AcceptedMimeTypes
                 /\ file[p].size # Some(0)
                 /\ \A n \in file[p].size : n <= Ceiling )
                   => PassedValidation(p)

\* An unsupported type declared with a size above the ceiling has been
\* refused as UnsupportedType, not as TooLarge.
C1_Witness ==
    \E p \in Procs :
        /\ Ended(p)
        /\ file[p].content_type = "video/x-matroska"
        /\ file[p].size = Some(Ceiling + 1)
        /\ result[p] = UnsupportedType

(***************************************************************************)
(* C2: an accepted MIME type with a declared size of zero is refused with  *)
(* EmptyFile (400); save_video_file returns no path for it and writes no   *)
(* file (every file of the directory belongs to another call).             *)
(***************************************************************************)
C2_EmptyFile ==
    \A p \in Procs :
        ( /\ pc[p] # "idle"
          /\ file[p].content_type \in AcceptedMimeTypes
          /\ file[p].size = Some(0) )
        => /\ Ended(p)
           /\ result[p] = EmptyFile
           /\ result[p].status_code = 400
           /\ unique_filename[p] = NoKey
           /\ metadata[p] = NoMetadata
           /\ \A k \in DOMAIN fs :
                  \E q \in Procs \ {p} : unique_filename[q] = k

\* A declared size of zero over a non-empty stream has been refused.
C2_Witness ==
    \E p \in Procs :
        /\ Ended(p)
        /\ file[p].content_type = "video/mp4"
        /\ file[p].size = Some(0)
        /\ file[p].stream = TenBytes
        /\ result[p] = EmptyFile

(***************************************************************************)
(* C3: for an accepted MIME type, validation fails with TooLarge (413)     *)
(* exactly when the declared size is strictly above the ceiling of 500 MiB *)
(* (524288000 bytes): the ceiling itself passes, ceiling + 1 is refused.   *)
(***************************************************************************)
C3_TooLarge ==
    \A p \in Procs :
        (pc[p] # "idle" /\ file[p].content_type \in AcceptedMimeTypes) =>
            /\ (result[p] = TooLarge) <=> (\E n \in file[p].size : n > Ceiling)
            /\ result[p] = TooLarge => Ended(p) /\ result[p].status_code = 413
            /\ file[p].size = Some(Ceiling) => PassedValidation(p)
            /\ file[p].size = Some(Ceiling + 1) => result[p] = TooLarge

\* A file declared at exactly the ceiling has been uploaded with success.
C3_Witness ==
    \E p \in Procs :
        /\ Succeeded(p)
        /\ file[p].size = Some(Ceiling)


(***************************************************************************)
(* The step in which save_video_file returns to upload_video: the call of  *)
(* p leaves the check after the write with its metadata built.             *)
(***************************************************************************)
SaveReturns(p) ==
    /\ pc[p] = "verify"
    /\ pc'[p] # "verify"
    /\ metadata'[p] # NoMetadata

\* The name of the file of the video directory that a path designates.
NameOf(path) == path[2]

(***************************************************************************)
(* C4: round trip.  When an upload is accepted, the file at the returned   *)
(* path holds, at the return, the bytes of the input stream, byte for byte *)
(* and in the same order.                                                  *)
(***************************************************************************)
C4_RoundTrip ==
    [][\A p \in Procs :
          SaveReturns(p) =>
              LET path == metadata'[p].file_path
              IN /\ Len(path) = 2
                 /\ NameOf(path) \in DOMAIN fs'
                 /\ Len(fs'[NameOf(path)]) = Len(file[p].stream)
                 /\ \A i \in 1..Len(file[p].stream) :
                        fs'[NameOf(path)][i] = file[p].stream[i]]_vars

\* A two-byte payload of two different bytes has been stored and answered.
C4_Witness ==
    \E p \in Procs :
        /\ Succeeded(p)
        /\ file[p].stream = <<1, 2>>
        /\ NameOf(result[p].file_path) \in DOMAIN fs
        /\ fs[NameOf(result[p].file_path)] = <<1, 2>>

(***************************************************************************)
(* C5: the size returned by a successful upload, in the response and in    *)
(* the metadata record, is the byte length of the file present at the      *)
(* returned path, measured after the write: a 10-byte payload gives a file *)
(* of 10 bytes and a returned size of 10.                                  *)
(***************************************************************************)
C5_SizeVerified ==
    [][\A p \in Procs :
          SaveReturns(p) =>
              LET name == NameOf(metadata'[p].file_path)
              IN /\ name \in DOMAIN fs'
                 /\ metadata'[p].file_size = Len(fs'[name])
                 /\ pc'[p] = "done" =>
                        /\ result'[p].ok
                        /\ result'[p].file_size = Len(fs'[name])
                        /\ result'[p].file_path = metadata'[p].file_path
                 /\ file[p].stream = TenBytes => metadata'[p].file_size = 10]_vars

\* clip.MP4, video/mp4, ten bytes: a key ending in .mp4, a file of ten
\* bytes, a returned size of 10.
C5_Witness ==
    \E p \in Procs :
        /\ Succeeded(p)
        /\ file[p].filename = <<"c", "l", "i", "p", ".", "M", "P", "4">>
        /\ file[p].content_type = "video/mp4"
        /\ file[p].stream = TenBytes
        /\ NameOf(result[p].file_path).ext = <<".", "m", "p", "4">>
        /\ NameOf(result[p].file_path) \in DOMAIN fs
        /\ Len(fs[NameOf(result[p].file_path)]) = 10
        /\ result[p].file_size = 10
        /\ metadata[p].file_size = 10

(***************************************************************************)
(* C6: save_video_file returns a path only if a file exists at that path   *)
(* at the return; when the file is absent after the write the call fails   *)
(* with WriteFailure (500) and returns no path.                            *)
(***************************************************************************)
C6_ExistsAtReturn ==
    [][\A p \in Procs :
          (pc[p] = "verify" /\ pc'[p] # "verify") =>
              /\ metadata'[p] # NoMetadata =>
                     ExistsIn(rootExists', fs', metadata'[p].file_path)
              /\ (pc'[p] = "done" /\ result'[p].ok) =>
                     ExistsIn(rootExists', fs', result'[p].file_path)
              /\ ~ExistsIn(rootExists, fs, full_path(unique_filename[p])) =>
                     /\ pc'[p] = "done"
                     /\ IsWriteFailure(result'[p])
                     /\ metadata'[p] = NoMetadata]_vars

\* The file was deleted between the write and the check: the call has
\* failed with 500, and no file is at its key.
C6_Witness ==
    \E p \in Procs :
        /\ Ended(p)
        /\ content[p] = TenBytes
        /\ result[p] = AbsentAfterWrite
        /\ unique_filename[p] \notin DOMAIN fs
        /\ last_delete.ret
        /\ last_delete.path = full_path(unique_filename[p])


\* The call of p has generated its storage key.
HasKey(p) == unique_filename[p] # NoKey

(***************************************************************************)
(* C7: any two calls of _generate_unique_filename, also with the same      *)
(* original name, return different storage keys; so no two uploads write   *)
(* to the same path, and no upload opens (and truncates) a file that is    *)
(* already stored.                                                         *)
(***************************************************************************)
C7_DistinctKeys ==
    /\ \A p, q \in Procs :
           (p # q /\ HasKey(p) /\ HasKey(q)) =>
               /\ unique_filename[p] # unique_filename[q]
               /\ full_path(unique_filename[p]) # full_path(unique_filename[q])
    /\ \A p \in Procs :
           pc[p] = "open" => unique_filename[p] \notin DOMAIN fs

\* Two uploads of the same original name have both been stored, under two
\* keys, each file holding its own payload.
C7_Witness ==
    \E p, q \in Procs :
        /\ p # q
        /\ Succeeded(p) /\ Succeeded(q)
        /\ file[p].filename = file[q].filename
        /\ file[p].stream # file[q].stream
        /\ unique_filename[p] # unique_filename[q]
        /\ fs[unique_filename[p]] = file[p].stream
        /\ fs[unique_filename[q]] = file[q].stream

(***************************************************************************)
(* C8: concurrent uploads are independent.  Whatever the interleaving, a   *)
(* step of one call changes neither the variables nor the file of another  *)
(* call, and a call that succeeds returns what it returns run alone: its   *)
(* own key, its own path, the length of its own payload, over a file that  *)
(* holds exactly its own payload.                                          *)
(***************************************************************************)
C8_Independent ==
    [][\A p \in Procs :
          pc'[p] # pc[p] =>
              /\ \A q \in Procs \ {p} :
                     /\ pc'[q] = pc[q]
                     /\ file'[q] = file[q]
                     /\ video_id'[q] = video_id[q]
                     /\ unique_filename'[q] = unique_filename[q]
                     /\ content'[q] = content[q]
                     /\ metadata'[q] = metadata[q]
                     /\ result'[q] = result[q]
                     /\ unique_filename[q] \in DOMAIN fs =>
                            /\ unique_filename[q] \in DOMAIN fs'
                            /\ fs'[unique_filename[q]] = fs[unique_filename[q]]
              /\ (pc'[p] = "done" /\ result'[p].ok) =>
                     /\ result'[p].file_path = full_path(unique_filename[p])
                     /\ result'[p].file_size = Len(file[p].stream)
                     /\ unique_filename[p] \in DOMAIN fs'
                     /\ fs'[unique_filename[p]] = file[p].stream
                     /\ result'[p].filename = file[p].filename]_vars

\* The call that began second has returned while the call that began first
\* is between its open and its check: each has its own file.
C8_Witness ==
    \E p, q \in Procs :
        /\ p # q
        /\ video_id[q] < video_id[p]
        /\ Succeeded(p)
        /\ pc[q] \in {"read", "write", "verify"}
        /\ file[p].filename = file[q].filename
        /\ unique_filename[q] \in DOMAIN fs
        /\ fs[unique_filename[p]] = file[p].stream

(***************************************************************************)
(* C9: the id of an item is assigned once, by the call that creates it,    *)
(* and never reused: the video_id values of any calls are pairwise         *)
(* distinct, and the id of the metadata record is the id of the response   *)
(* of the same call.                                                       *)
(***************************************************************************)
C9_UniqueId ==
    /\ \A p, q \in Procs :
           (p # q /\ pc[p] # "idle" /\ pc[q] # "idle") =>
               video_id[p] # video_id[q]
    /\ \A p, q \in Procs :
           (p # q /\ Succeeded(p) /\ Succeeded(q)) =>
               result[p].video_id # result[q].video_id
    /\ \A p \in Procs :
           /\ metadata[p] # NoMetadata => metadata[p].video_id = video_id[p]
           /\ Succeeded(p) =>
                  /\ result[p].video_id = video_id[p]
                  /\ metadata[p].video_id = result[p].video_id

\* Two uploads have been answered, with two ids.
C9_Witness ==
    \E p, q \in Procs :
        /\ p # q
        /\ Succeeded(p) /\ Succeeded(q)
        /\ result[p].video_id # result[q].video_id
        /\ metadata[p].video_id = result[p].video_id

(***************************************************************************)
(* C10: a successful upload answers 201 with {video_id, filename,          *)
(* file_path, file_size, content_type, status, upload_time}: the caller's  *)
(* file name, the declared MIME type, the path returned by                 *)
(* save_video_file, the status Uploaded.  A metadata record is built only  *)
(* once validation and the write have succeeded, never for a failed        *)
(* upload.                                                                 *)
(***************************************************************************)
C10_Response ==
    \A p \in Procs :
        /\ Succeeded(p) =>
               /\ result[p].status_code = 201
               /\ {"video_id", "filename", "file_path", "file_size",
                   "content_type", "status", "upload_time"}
                      \subseteq DOMAIN result[p]
               /\ result[p].filename = file[p].filename
               /\ result[p].content_type = file[p].content_type
               /\ result[p].file_path = full_path(unique_filename[p])
               /\ result[p].status = "uploaded"
               /\ file[p].content_type \in AcceptedMimeTypes
               /\ file[p].size # Some(0)
               /\ \A n \in file[p].size : n <= Ceiling
               /\ metadata[p] # NoMetadata
        /\ metadata[p] # NoMetadata =>
               /\ pc[p] \in {"save_metadata", "done"}
               /\ PassedValidation(p)
               /\ content[p] = file[p].stream
               /\ metadata[p].file_path = full_path(unique_filename[p])
               /\ metadata[p].original_filename = file[p].filename
               /\ metadata[p].content_type = file[p].content_type
               /\ metadata[p].status = "uploaded"
               /\ Ended(p) => result[p].ok
        /\ (Ended(p) /\ ~result[p].ok) => metadata[p] = NoMetadata

\* video/webm under a name without extension has been answered 201.
C10_Witness ==
    \E p \in Procs :
        /\ Succeeded(p)
        /\ result[p].content_type = "video/webm"
        /\ result[p].filename = <<"n", "o", "e", "x", "t">>
        /\ result[p].file_size = 2


(***************************************************************************)
(* The order of the steps of one call.  A call that only ever moves up in  *)
(* this order runs each step (the validation, the open, the read, the      *)
(* write, the check) at most once.                                         *)
(***************************************************************************)
StepRank(label) ==
    CASE label = "idle" -> 0
      [] label = "open" -> 1
      [] label = "read" -> 2
      [] label = "write" -> 3
      [] label = "verify" -> 4
      [] label = "save_metadata" -> 5
      [] label = "done" -> 6

\* The status code that the validation policy of the specification gives a
\* request: 400 (type, then empty), 413 (too large), 0 when it passes.
PolicyCode(f) ==
    IF f.content_type \notin AcceptedMimeTypes THEN 400
    ELSE IF f.size = Some(0) THEN 400
    ELSE IF \E n \in f.size : n > Ceiling THEN 413
    ELSE 0

(***************************************************************************)
(* C11: every failure of an upload is terminal for the call and is not     *)
(* retried.  Within one call the validation runs at most once and at most  *)
(* one write is attempted (the call only moves forward); it ends in        *)
(* exactly one outcome, the 201 or one error of code 400, 413 or 500,      *)
(* which never changes afterwards; and a 400 or 413 of the validation      *)
(* reaches the caller as raised, never as a 500.                           *)
(***************************************************************************)
C11_Terminal ==
    /\ [](\A p \in Procs :
             /\ ~Ended(p) => result[p] = NoResult
             /\ Ended(p) =>
                    \/ result[p].ok /\ result[p].status_code = 201
                    \/ ~result[p].ok /\ result[p].status_code \in {400, 413, 500}
             /\ (pc[p] # "idle" /\ PolicyCode(file[p]) # 0) =>
                    /\ Ended(p)
                    /\ ~result[p].ok
                    /\ result[p].status_code = PolicyCode(file[p])
             /\ (Ended(p) /\ PolicyCode(file[p]) = 0) =>
                    result[p].status_code \in {201, 500})
    /\ [][\A p \in Procs :
             /\ pc'[p] # pc[p] => StepRank(pc'[p]) > StepRank(pc[p])
             /\ Ended(p) => pc'[p] = "done" /\ result'[p] = result[p]
             /\ result[p] # NoResult => result'[p] = result[p]]_vars

\* A request above the ceiling has ended in 413, with no key and no write.
C11_Witness ==
    \E p \in Procs :
        /\ Ended(p)
        /\ result[p] = TooLarge
        /\ result[p].status_code = 413
        /\ file[p].size = Some(Ceiling + 1)
        /\ unique_filename[p] = NoKey


(***************************************************************************)
(* MongoDBConnector (app/db/mongodb_connector.py).  The client handle is   *)
(* None or an AsyncIOMotorClient, open or closed; the collection handle is *)
(* None or the video_metadata collection.  Whether the server answers an   *)
(* operation is the environment's choice (ioOk).                           *)
(***************************************************************************)
AsyncIOMotorClient == Some([closed |-> FALSE])
ClosedClient == Some([closed |-> TRUE])
video_metadata == Some("video_metadata")

\* `if mongodb_connector.client:` / `if not mongodb_connector.client:`
ClientIsSet_Always == TRUE

ClientIsSet == client # NoneV

\* connect(): the client is bound before the ping; a ConnectionFailure of
\* the ping is answered False, with the client left bound.
connect(ioOk) ==
    /\ client' = AsyncIOMotorClient
    /\ collection' = IF ioOk THEN video_metadata ELSE collection
    /\ query' = [endpoint |-> "connect", status_code |-> 0, ret |-> ioOk]
    /\ UNCHANGED <<callVars, diskVars, uuidDrawn, store, last_delete>>

\* disconnect(): closes the client; no handle is reset.
disconnect ==
    /\ client' = IF client # NoneV THEN ClosedClient ELSE client
    /\ query' = [endpoint |-> "disconnect", status_code |-> 0, ret |-> TRUE]
    /\ UNCHANGED <<callVars, diskVars, uuidDrawn, collection, store, last_delete>>

\* MongoDBConnector.save_video_metadata: True when the document was
\* inserted; False without a collection or when insert_one raised.
save_video_metadata_ret(ioOk) == collection # NoneV /\ ioOk

(***************************************************************************)
(* upload_video, lines 59-75, with a client: await save_video_metadata,    *)
(* whose return value is dropped, then the response.                       *)
(***************************************************************************)
upload_save_metadata(p, ioOk) ==
    /\ pc[p] = "save_metadata"
    /\ LET ret == save_video_metadata_ret(ioOk)
       IN /\ store' = IF ret THEN store \cup {metadata[p]} ELSE store
          /\ meta_saved' = [meta_saved EXCEPT ![p] = Some(ret)]
    /\ pc' = [pc EXCEPT ![p] = "done"]
    /\ result' = [result EXCEPT
                     ![p] = VideoUploadResponse(video_id[p], file[p],
                                metadata[p].file_path, metadata[p].file_size)]
    /\ UNCHANGED <<file, video_id, unique_filename, content, metadata, made_dir,
                   diskVars, uuidDrawn, client, collection, last_delete, query>>

\* MongoDBConnector.get_video_metadata: the documents found (none without a
\* collection or when find_one raised).
FindVideo(vid, ioOk) ==
    IF collection # NoneV /\ ioOk THEN {d \in store : d.video_id = vid} ELSE {}

\* GET /videos/{video_id}
get_video_metadata(vid, ioOk) ==
    /\ query' =
           IF ~ClientIsSet
           THEN [endpoint |-> "get_video_metadata", status_code |-> 503, ret |-> FALSE]
           ELSE IF FindVideo(vid, ioOk) = {}
           THEN [endpoint |-> "get_video_metadata", status_code |-> 404, ret |-> FALSE]
           ELSE [endpoint |-> "get_video_metadata", status_code |-> 200, ret |-> TRUE]
    /\ UNCHANGED <<callVars, diskVars, uuidDrawn, mongoVars, last_delete>>

\* GET /videos/ : the list, empty without a collection or on an error.
list_all_videos(ioOk) ==
    /\ query' =
           IF ~ClientIsSet
           THEN [endpoint |-> "list_all_videos", status_code |-> 503, ret |-> FALSE]
           ELSE [endpoint |-> "list_all_videos", status_code |-> 200,
                 ret |-> collection # NoneV /\ ioOk]
    /\ UNCHANGED <<callVars, diskVars, uuidDrawn, mongoVars, last_delete>>

\* MongoDBConnector.update_video_status: the documents whose status the
\* update changes (modified_count > 0).
ModifiedBy(vid, new_status, ioOk) ==
    {d \in FindVideo(vid, ioOk) : d.status # new_status}

VideoStatuses == {"uploaded", "processing", "completed", "failed"}

\* PUT /videos/{video_id}/status
update_video_status(vid, new_status, ioOk) ==
    /\ IF ~ClientIsSet
       THEN /\ query' = [endpoint |-> "update_video_status", status_code |-> 503,
                         ret |-> FALSE]
            /\ UNCHANGED store
       ELSE LET hit == ModifiedBy(vid, new_status, ioOk)
            IN /\ store' = (store \ FindVideo(vid, ioOk))
                              \cup {[d EXCEPT !.status = new_status] :
                                       d \in FindVideo(vid, ioOk)}
               /\ query' = [endpoint |-> "update_video_status",
                            status_code |-> IF hit = {} THEN 404 ELSE 200,
                            ret |-> hit # {}]
    /\ UNCHANGED <<callVars, diskVars, uuidDrawn, client, collection, last_delete>>

\* The ids a caller may ask for: those of the calls, and one never given.
AskedIds == {video_id[p] : p \in Procs} \cup {0}

(***************************************************************************)
(* SpecLive: the running service, one upload call and the metadata         *)
(* requests; nothing in it calls connect.                                  *)
(* SpecMongo: the same with connect and disconnect called around it.       *)
(***************************************************************************)
NextLive ==
    \/ \E f \in ConcUploadFiles : upload_video(1, f)
    \/ \E ioOk \in BOOLEAN : aio_open(1, ioOk)
    \/ \E ioOk \in BOOLEAN : file_read(1, ioOk)
    \/ \E ioOk \in BOOLEAN, n \in 0..Len(content[1]) : aio_write(1, ioOk, n)
    \/ save_return(1)
    \/ \E vid \in AskedIds, ioOk \in BOOLEAN : get_video_metadata(vid, ioOk)
    \/ \E ioOk \in BOOLEAN : list_all_videos(ioOk)
    \/ \E vid \in AskedIds, st \in VideoStatuses, ioOk \in BOOLEAN :
           update_video_status(vid, st, ioOk)

SpecLive == Init /\ [][NextLive]_vars

NextMongo ==
    \/ NextLive
    \/ \E ioOk \in BOOLEAN : upload_save_metadata(1, ioOk)
    \/ \E ioOk \in BOOLEAN : connect(ioOk)
    \/ disconnect

SpecMongo == Init /\ [][NextMongo]_vars


(***************************************************************************)
(* C12: no error is silently swallowed in the upload path: a call whose    *)
(* metadata save failed (save_video_metadata answered False: no            *)
(* collection, or insert_one raised) does not report success.              *)
(***************************************************************************)
C12_NoSilentFailure ==
    \A p \in Procs : Succeeded(p) => meta_saved[p] # Some(FALSE)


(***************************************************************************)
(* C13: delete_video_file answers True exactly when the path named an      *)
(* existing regular file, which is gone after the call; in every other     *)
(* case (missing path, directory, error while unlinking) it answers False  *)
(* and the stored files are unchanged; a path deleted with True stays      *)
(* absent, so a second delete of it answers False.                         *)
(***************************************************************************)
C13_Delete ==
    /\ [](last_delete.called /\ last_delete.ret => ~Exists(last_delete.path))
    /\ [][last_delete' # last_delete =>
             LET path == last_delete'.path
                 wasFile == Len(path) = 2 /\ rootExists /\ path[2] \in DOMAIN fs
             IN /\ last_delete'.called
                /\ rootExists' = rootExists
                /\ last_delete'.ret =>
                       /\ wasFile
                       /\ DOMAIN fs' = DOMAIN fs \ {path[2]}
                       /\ \A k \in DOMAIN fs' : fs'[k] = fs[k]
                /\ ~last_delete'.ret => fs' = fs
                /\ ~wasFile => ~last_delete'.ret
                /\ (last_delete.called /\ last_delete.ret
                       /\ path = last_delete.path) => ~last_delete'.ret]_vars

\* The file of a successful upload was deleted, and a second delete of the
\* same path has answered False.
C13_Witness ==
    \E p \in Procs :
        /\ Succeeded(p)
        /\ unique_filename[p] \notin DOMAIN fs
        /\ last_delete = [path |-> full_path(unique_filename[p]),
                          ret |-> FALSE, called |-> TRUE]


(***************************************************************************)
(* SpecRoot: one upload call while the storage directory, created when the *)
(* configuration is loaded, may be removed from outside the service.       *)
(***************************************************************************)
RootFileNames ==
    FileNames \cup {<<"a", ".", "b", ".", "M", "K", "V">>,
                    <<".", "m", "p", "4">>,
                    <<"c", "l", "i", "p", ".">>}

RootUploadFiles ==
    [filename : RootFileNames,
     content_type : {"video/mp4", "text/plain"},
     size : {NoneV, Some(0), Some(max_size + 1)},
     stream : {<<1>>}]

\* The directory and everything in it removed (rm -r) by the operator.
rmtree_root ==
    /\ rootExists
    /\ rootExists' = FALSE
    /\ fs' = [k \in {} |-> <<>>]
    /\ UNCHANGED <<callVars, uuidDrawn, mongoVars, last_delete, query>>

NextRoot ==
    \/ \E f \in RootUploadFiles : upload_video(1, f)
    \/ \E ioOk \in BOOLEAN : aio_open(1, ioOk)
    \/ \E ioOk \in BOOLEAN : file_read(1, ioOk)
    \/ \E ioOk \in BOOLEAN, n \in 0..Len(content[1]) : aio_write(1, ioOk, n)
    \/ save_return(1)
    \/ rmtree_root

SpecRoot == Init /\ [][NextRoot]_vars

\* The extension expected for each original name of RootFileNames.
ExpectedExt(name) ==
    CASE name = <<"c", "l", "i", "p", ".", "M", "P", "4">> -> <<".", "m", "p", "4">>
      [] name = <<"c", "l", "i", "p", ".", "m", "p", "4">> -> <<".", "m", "p", "4">>
      [] name = <<"a", ".", "b", ".", "M", "K", "V">> -> <<".", "m", "k", "v">>
      [] name = <<"n", "o", "e", "x", "t">> -> <<>>
      [] name = <<".", "m", "p", "4">> -> <<>>
      [] name = <<"c", "l", "i", "p", ".">> -> <<>>

(***************************************************************************)
(* C14: the generated key is a fresh identifier followed by the            *)
(* lower-cased last suffix of the original name (clip.MP4 gives .mp4), and *)
(* by nothing when the original name has no extension.                     *)
(***************************************************************************)
C14_KeyExtension ==
    /\ [](\A p \in Procs :
             HasKey(p) =>
                 /\ unique_filename[p].ext = ExpectedExt(file[p].filename)
                 /\ unique_filename[p].id # video_id[p])
    /\ [][\A p \in Procs :
             unique_filename'[p] # unique_filename[p] =>
                 /\ unique_filename'[p].id > uuidDrawn
                 /\ unique_filename'[p].id <= uuidDrawn']_vars

C14_Witness ==
    \E p \in Procs :
        /\ Succeeded(p)
        /\ file[p].filename = <<"a", ".", "b", ".", "M", "K", "V">>
        /\ unique_filename[p].ext = <<".", "m", "k", "v">>
        /\ unique_filename[p] \in DOMAIN fs

(***************************************************************************)
(* C15: a call with a valid file made while the storage directory does not *)
(* exist creates it before the file is opened for writing, and the missing *)
(* directory does not make the call fail; when the directory exists the    *)
(* directory step changes nothing on disk.                                 *)
(***************************************************************************)
C15_RootCreated ==
    [][\A p \in Procs :
          /\ (pc[p] = "idle" /\ pc'[p] # "idle" /\ PolicyCode(file'[p]) = 0) =>
                 /\ pc'[p] = "open"
                 /\ rootExists'
                 /\ fs' = fs
                 /\ made_dir'[p] = ~rootExists
                 /\ rootExists => rootExists' = rootExists
          /\ (pc[p] = "open" /\ pc'[p] = "read") =>
                 /\ rootExists
                 /\ unique_filename[p] \in DOMAIN fs']_vars

\* A call that found no directory, made it, and succeeded.
C15_Witness ==
    \E p \in Procs :
        /\ Succeeded(p)
        /\ made_dir[p]
        /\ Exists(full_path(unique_filename[p]))

(***************************************************************************)
(* C17: an upload rejected by validation has no side effect: no key, no    *)
(* directory created, no file opened or written, no metadata record built  *)
(* or saved; the stored files are the same after the call as before.       *)
(***************************************************************************)
C17_RejectedNoEffect ==
    /\ [](\A p \in Procs :
             (pc[p] # "idle" /\ PolicyCode(file[p]) # 0) =>
                 /\ unique_filename[p] = NoKey
                 /\ metadata[p] = NoMetadata
                 /\ meta_saved[p] = NoneV
                 /\ content[p] = <<>>
                 /\ ~made_dir[p])
    /\ [][\A p \in Procs :
             (pc[p] = "idle" /\ pc'[p] # "idle" /\ PolicyCode(file'[p]) # 0) =>
                 /\ fs' = fs
                 /\ rootExists' = rootExists
                 /\ store' = store]_vars

\* A call rejected with 413 while no storage directory existed.
C17_Witness ==
    \E p \in Procs :
        /\ Ended(p)
        /\ result[p] = TooLarge
        /\ ~rootExists
        /\ unique_filename[p] = NoKey


(***************************************************************************)
(* C16: in the running service, where nothing calls connect, the client    *)
(* handle is None in every reachable state: upload_video never writes a    *)
(* metadata record to the store, and get_video_metadata, list_all_videos   *)
(* and update_video_status always answer 503 without touching the store.   *)
(***************************************************************************)
C16_StoreInert ==
    /\ [](/\ client = NoneV
          /\ collection = NoneV
          /\ store = {}
          /\ \A p \in Procs : meta_saved[p] = NoneV /\ pc[p] # "save_metadata"
          /\ query # NoQuery => query.status_code = 503 /\ ~query.ret)
    /\ [][store' = store /\ client' = client]_vars

\* An upload has succeeded and a status update was then refused with 503.
C16_Witness ==
    \E p \in Procs :
        /\ Succeeded(p)
        /\ metadata[p] # NoMetadata
        /\ query = [endpoint |-> "update_video_status", status_code |-> 503,
                    ret |-> FALSE]


(***************************************************************************)
(* C18: when save_video_file fails with a 500 after the destination file   *)
(* was opened, no file, empty or partial, remains at the generated key.    *)
(***************************************************************************)
C18_NoPartialFile ==
    \A p \in Procs :
        (Ended(p) /\ IsWriteFailure(result[p]) /\ HasKey(p)) =>
            unique_filename[p] \notin DOMAIN fs

(***************************************************************************)
(* C19: every successful upload returns a size within the policy,          *)
(* 1 <= file_size <= 500 MiB, whatever the declared size was.              *)
(***************************************************************************)
C19_SizeWithinPolicy ==
    \A p \in Procs :
        Succeeded(p) => 1 <= result[p].file_size /\ result[p].file_size <= Ceiling

(***************************************************************************)
(* C20: the client handle is set only if the collection handle is set and  *)
(* the connection is usable: after a connect that answered False and after *)
(* a disconnect the client is None, so the gated endpoints answer 503.     *)
(***************************************************************************)
C20_ClientImpliesCollection ==
    /\ client # NoneV => collection # NoneV /\ client = AsyncIOMotorClient
    /\ (query.endpoint = "connect" /\ ~query.ret) => client = NoneV
    /\ query.endpoint = "disconnect" => client = NoneV
    /\ (query.endpoint \in {"get_video_metadata", "list_all_videos",
                            "update_video_status"} /\ collection = NoneV) =>
           query.status_code = 503


(***************************************************************************)
(* GET /stream/{video_id} (stream_video).  With a client, the path of the  *)
(* metadata record is served when the record is found and its file exists; *)
(* otherwise the fallback looks in the storage directory for               *)
(* f"{video_id}.mp4", then .avi, .mov, .mkv, and answers 404 when none     *)
(* exists.                                                                 *)
(***************************************************************************)
FallbackExts ==
    << <<".", "m", "p", "4">>, <<".", "a", "v", "i">>,
       <<".", "m", "o", "v">>, <<".", "m", "k", "v">> >>

\* Path(settings.local_video_path) / f"{video_id}{ext}"
FallbackPath(vid, ext) == full_path([id |-> vid, ext |-> ext])

\* The first of the fallback paths that exists; the .mp4 path when none does.
FallbackVideoPath(vid) ==
    LET hits == {i \in 1..Len(FallbackExts) :
                    Exists(FallbackPath(vid, FallbackExts[i]))}
    IN IF hits = {} THEN FallbackPath(vid, FallbackExts[1])
       ELSE FallbackPath(vid, FallbackExts[CHOOSE i \in hits : \A j \in hits : i <= j])

stream_video(vid, ioOk) ==
    /\ LET found == IF ClientIsSet THEN FindVideo(vid, ioOk) ELSE {}
           served == {d.file_path : d \in {m \in found : Exists(m.file_path)}}
           video_path == FallbackVideoPath(vid)
       IN query' =
              IF served # {}
              THEN [endpoint |-> "stream_video", status_code |-> 200, ret |-> TRUE,
                    video_id |-> vid, path |-> CHOOSE q \in served : TRUE]
              ELSE IF ~Exists(video_path)
              THEN [endpoint |-> "stream_video", status_code |-> 404, ret |-> FALSE,
                    video_id |-> vid, path |-> <<>>]
              ELSE [endpoint |-> "stream_video", status_code |-> 200, ret |-> TRUE,
                    video_id |-> vid, path |-> video_path]
    /\ UNCHANGED <<callVars, diskVars, uuidDrawn, mongoVars, last_delete>>

\* The ids a caller may put in the URL: those of AskedIds and the
\* identifiers under which files are stored.
StreamIds == AskedIds \cup {unique_filename[p].id : p \in Procs}

(***************************************************************************)
(* SpecStream: the running service (no connect) with stream_video and      *)
(* with delete_video_file called on the stored files.                      *)
(***************************************************************************)
NextStream ==
    \/ NextLive
    \/ \E vid \in StreamIds, ioOk \in BOOLEAN : stream_video(vid, ioOk)
    \/ \E path \in DeletePaths, ioOk \in BOOLEAN : delete_video_file(path, ioOk)

SpecStream == Init /\ [][NextStream]_vars

(***************************************************************************)
(* C21: with no metadata store connected, stream_video(v) for the          *)
(* video_id v returned by a successful upload whose file is still stored   *)
(* answers 200 with that file, and not 404.                                *)
(***************************************************************************)
C21_LookupById ==
    [][(query' # query /\ query'.endpoint = "stream_video") =>
          \A p \in Procs :
              (/\ Succeeded(p)
               /\ client = NoneV
               /\ query'.video_id = result[p].video_id
               /\ Exists(full_path(unique_filename[p]))) =>
                  /\ query'.status_code = 200
                  /\ query'.path = full_path(unique_filename[p])]_vars

=============================================================================
